---- MODULE Spec2Model ----
(***************************************************************************)
(* Model of the retrieval core of rag-ai-assistant:                        *)
(*   backend/ingest.py  DocumentIngester  (extract, clean, chunk, embed,   *)
(*                      load/save index, process_documents)                *)
(*   backend/rag.py     RAGProcessor      (load, retrieve, generate,       *)
(*                      process_query)                                     *)
(*   backend/app.py     request handlers  (upload, delete, chat)           *)
(*                                                                         *)
(* Texts are sequences of characters over four character classes:          *)
(*   "a" a word character, " " whitespace, "." the sentence terminator,    *)
(*   "#" a character outside clean_text's allow-list.                      *)
(***************************************************************************)
EXTENDS Integers, Sequences, FiniteSets, TLC

VARIABLES sources, indexFile, metaFile, chunksFile, response, run, nRuns,
          streak, qres, doc, tasks, running, loop

vars == <<sources, indexFile, metaFile, chunksFile, response, run, nRuns,
          streak, qres, doc, tasks, running, loop>>

----------------------------------------------------------------------------
(* Program constants                                                       *)

chunk_size == 1000

chunk_overlap == 200

SnapWindow == 100

top_k == 5

----------------------------------------------------------------------------
(* Python string primitives                                                *)

Min2(a, b) == IF a < b THEN a ELSE b

Max2(a, b) == IF a > b THEN a ELSE b

SetMax(S) == CHOOSE x \in S : \A y \in S : y <= x

Rep(c, n) == [i \in 1..n |-> c]

\* Python's clamping of a slice bound i for a string of length n.
PyIdx(i, n) == IF i < 0 THEN Max2(i + n, 0) ELSE Min2(i, n)

\* text[s:e]
Slice(text, s, e) == SubSeq(text, PyIdx(s, Len(text)) + 1, PyIdx(e, Len(text)))

\* text.rfind(c, s, e): highest 0-based index in text[s:e] holding c, or -1.
RFind(text, c, s, e) ==
  LET lo == PyIdx(s, Len(text))
      hi == PyIdx(e, Len(text))
      hits == {i \in lo..(hi - 1) : text[i + 1] = c}
  IN IF hits = {} THEN -1 ELSE SetMax(hits)

\* text.strip()
Strip(text) ==
  LET n == Len(text)
  IN IF \A i \in 1..n : text[i] = " " THEN <<>>
     ELSE SubSeq(text,
                 CHOOSE i \in 1..n :
                   text[i] # " " /\ \A j \in 1..(i - 1) : text[j] = " ",
                 CHOOSE i \in 1..n :
                   text[i] # " " /\ \A j \in (i + 1)..n : text[j] = " ")

\* The characters of text at the positions lo..hi that lie in keep, in order
\* (split in halves so that the evaluation depth stays logarithmic).
RECURSIVE SelectChars(_, _, _, _)
SelectChars(text, keep, lo, hi) ==
  IF lo > hi THEN <<>>
  ELSE IF lo = hi THEN (IF lo \in keep THEN <<text[lo]>> ELSE <<>>)
  ELSE LET mid == (lo + hi) \div 2
       IN SelectChars(text, keep, lo, mid) \o SelectChars(text, keep, mid + 1, hi)

\* re.sub(r'\s+', ' ', text): every run of whitespace becomes one space.
CollapseSpaces(text) ==
  SelectChars(text,
              {i \in 1..Len(text) : text[i] # " " \/ i = 1 \/ text[i - 1] # " "},
              1, Len(text))

\* re.sub(r'[^\w\s\.\,\!\?\;\:\-\(\)]', '', text): drop the characters
\* outside the allow-list.
DropSpecial(text) ==
  SelectChars(text, {i \in 1..Len(text) : text[i] # "#"}, 1, Len(text))

----------------------------------------------------------------------------
(* DocumentIngester: clean_text, chunk_text                                *)

clean_text(text) == Strip(DropSpecial(CollapseSpaces(text)))

\* Lines 110-114: the window end, moved back to just after the last "." of
\* the window when that lies in the window's last SnapWindow characters and
\* the window ends before the text does.
SnapEnd(text, start, size, sentence_end) ==
  IF start + size < Len(text) /\ sentence_end > start + size - SnapWindow
  THEN sentence_end + 1
  ELSE start + size

WindowEnd(text, start, size) ==
  SnapEnd(text, start, size, RFind(text, ".", start, start + size))

\* Lines 116-120: the stripped chunk of the window and the next window start.
Window(text, start, end, overlap) ==
  [start |-> start, end |-> end,
   chunk |-> Strip(Slice(text, start, end)),
   next |-> end - overlap]

\* One iteration of the sliding loop of chunk_text at window start `start`.
ChunkStep(text, start, size, overlap) ==
  Window(text, start, WindowEnd(text, start, size), overlap)

\* The sliding loop (lines 106-123): the windows that produced a chunk, in
\* order; an empty chunk is not appended, the loop ends when the next start
\* is at or past the end of the text.
RECURSIVE ChunkLoop(_, _, _, _)
RECURSIVE ChunkRest(_, _, _, _)
ChunkLoop(text, start, size, overlap) ==
  IF ~(start < Len(text)) THEN <<>>
  ELSE ChunkRest(text, ChunkStep(text, start, size, overlap), size, overlap)

ChunkRest(text, st, size, overlap) ==
  (IF st.chunk # <<>> THEN <<st>> ELSE <<>>)
    \o (IF st.next >= Len(text) THEN <<>>
        ELSE ChunkLoop(text, st.next, size, overlap))

ChunkWindows(text, size, overlap) ==
  IF Len(text) <= size
  THEN <<[start |-> 0, end |-> Len(text), chunk |-> text, next |-> Len(text)]>>
  ELSE ChunkLoop(text, 0, size, overlap)

\* chunk_text: the chunks in order, each with the window it was cut from.
chunk_text(text) == ChunkWindows(text, chunk_size, chunk_overlap)

\* Lines 215-222: the chunks w of one file with their metadata; `ranges`
\* remembers where in the cleaned text each chunk was cut.
ChunkRecords(name, text, cleaned, w) ==
  [pc |-> "done", name |-> name, text |-> text, cleaned |-> cleaned,
   chunks |-> [i \in 1..Len(w) |-> w[i].chunk],
   ranges |-> [i \in 1..Len(w) |-> [start |-> w[i].start, end |-> w[i].end]],
   meta |-> [i \in 1..Len(w) |->
               [source |-> name, chunk_id |-> i - 1,
                total_chunks |-> Len(w),
                text_length |-> Len(w[i].chunk)]]]

\* Lines 207-212: clean, then chunk.
CleanAndChunk(name, text, cleaned) ==
  ChunkRecords(name, text, cleaned, chunk_text(cleaned))

\* Lines 200-222 of process_documents for one file whose extracted text is
\* `text`: skip on empty text, else clean, chunk and describe every chunk.
FileChunks(name, text) ==
  IF text = <<>>
  THEN [pc |-> "skipped", name |-> name, text |-> text, cleaned |-> <<>>,
        chunks |-> <<>>, ranges |-> <<>>, meta |-> <<>>]
  ELSE CleanAndChunk(name, text, clean_text(text))

----------------------------------------------------------------------------
(* Bounds and inputs of the service model                                  *)

MaxRuns == 2

MaxUpload == 1

MaxVecs == 6

MaxTasks == 3

MaxText == 4

MaxSize == 3

MaxIters == 6

FileNames == {"a.txt", "b.pdf"}

UploadNames == FileNames \cup {"c.xyz"}

\* What a stored file holds: a file the extractor cannot read, or one of two
\* short texts (longer texts go through the same per-file steps under
\* SpecDoc below).
Contents == {"unreadable", "note", "memo"}

RawText(content) ==
  CASE content = "note" -> <<" ", "a", "#", " ", " ", "a", ".", " ">>
    [] content = "memo" -> <<"a", "a", ".", " ", "a">>
    [] OTHER            -> <<>>

Suffix(name) ==
  CASE name = "a.txt" -> ".txt"
    [] name = "b.pdf" -> ".pdf"
    [] OTHER          -> ".xyz"

\* Position of a suffix in supported_extensions, 0 when it is not listed.
ExtRank(name) ==
  CASE Suffix(name) = ".pdf"  -> 1
    [] Suffix(name) = ".docx" -> 2
    [] Suffix(name) = ".doc"  -> 3
    [] Suffix(name) = ".txt"  -> 4
    [] OTHER                  -> 0

\* extract_text: dispatch on the suffix; an unsupported suffix and a failed
\* extraction both give the empty text; every extractor strips its result.
extract_text(name, content) ==
  IF ExtRank(name) = 0 THEN <<>>
  ELSE IF content = "unreadable" THEN <<>>
  ELSE Strip(RawText(content))

\* The sequences in which the glob loop of process_documents can list the
\* stored files: by supported_extensions, in any order within one suffix.
GlobOrders(src) ==
  LET present == {f \in FileNames : src[f] # "absent" /\ ExtRank(f) > 0}
      n == Cardinality(present)
  IN {o \in [1..n -> present] :
        /\ \A i, j \in 1..n : i # j => o[i] # o[j]
        /\ \A i, j \in 1..n : i < j => ExtRank(o[i]) <= ExtRank(o[j])}

RECURSIVE Concat(_)
Concat(ss) == IF ss = <<>> THEN <<>> ELSE Head(ss) \o Concat(Tail(ss))

\* The per-file loop of process_documents (lines 193-222) over the files in
\* the order listed: the metadata of all chunks, one entry per chunk.
AllMetadata(src, files) ==
  Concat([i \in 1..Len(files) |->
            FileChunks(files[i], extract_text(files[i], src[files[i]])).meta])

\* The vector the embedding model gives a chunk, named by the chunk it encodes.
Embed(m) == [src |-> m.source, cid |-> m.chunk_id, len |-> m.text_length]

\* create_embeddings: one vector per text in order, or the empty array when
\* the model raises.
create_embeddings(batch, fails) ==
  IF fails THEN <<>> ELSE [i \in 1..Len(batch) |-> Embed(batch[i])]

\* DocumentIngester.load_index: (None, []) when a file is missing or when
\* reading raises.
ingest_load_index(idxF, metF, fails) ==
  IF idxF.st = "absent" \/ metF.st = "absent"
  THEN [found |-> FALSE, index |-> <<>>, metadata |-> <<>>]
  ELSE IF fails \/ idxF.st # "ok" \/ metF.st # "ok"
  THEN [found |-> FALSE, index |-> <<>>, metadata |-> <<>>]
  ELSE [found |-> TRUE, index |-> idxF.data, metadata |-> metF.data]

\* save_index: the index file is written first, then the metadata file; an
\* exception at either write is logged and swallowed.
save_index(index, metadata, idxF, metF, fault) ==
  CASE fault = "save_index_fail_clean" ->
         [indexFile |-> idxF, metaFile |-> metF]
    [] fault = "save_index_fail_partial" ->
         [indexFile |-> [st |-> "corrupt", data |-> <<>>], metaFile |-> metF]
    [] fault = "save_meta_open_fail" ->
         [indexFile |-> [st |-> "ok", data |-> index], metaFile |-> metF]
    [] fault = "save_meta_dump_fail" ->
         [indexFile |-> [st |-> "ok", data |-> index],
          metaFile |-> [st |-> "corrupt", data |-> <<>>]]
    [] OTHER ->
         [indexFile |-> [st |-> "ok", data |-> index],
          metaFile |-> [st |-> "ok", data |-> metadata]]

\* MergeIndex as it would be if every run built its index anew.
MergeIndexFresh(loaded, embeddings) == embeddings

\* Lines 239-247: add the new vectors to the loaded index, or start a new one.
MergeIndex(loaded, embeddings) ==
  IF loaded.found THEN loaded.index \o embeddings ELSE embeddings

\* Line 242: the new metadata goes after the loaded metadata.
MergeMeta(loaded, all_metadata) ==
  IF loaded.found THEN loaded.metadata \o all_metadata ELSE all_metadata

Faults == {"none", "glob_error", "load_fail", "embed_fail",
           "save_index_fail_clean", "save_index_fail_partial",
           "save_meta_open_fail", "save_meta_dump_fail"}

\* Lines 238-250: merge into what was loaded and save.
MergeAndSave(loaded, embeddings, all_metadata, idxF, metF, fault) ==
  save_index(MergeIndex(loaded, embeddings), MergeMeta(loaded, all_metadata),
             idxF, metF, fault)

\* What process_documents leaves behind: the two files, whether an exception
\* left the function, the return point, the number of new chunks.
RunResult(saved, raised, outcome, k) ==
  [indexFile |-> saved.indexFile, metaFile |-> saved.metaFile,
   raised |-> raised, outcome |-> outcome, k |-> k]

\* Lines 230-252: embed the new chunks; return on an empty result, else
\* merge and save.
EmbedAndSave(loaded, embeddings, all_metadata, idxF, metF, fault) ==
  IF embeddings = <<>>
  THEN RunResult([indexFile |-> idxF, metaFile |-> metF], FALSE, "embedfail", 0)
  ELSE RunResult(MergeAndSave(loaded, embeddings, all_metadata, idxF, metF, fault),
                 FALSE, "saved", Len(all_metadata))

\* process_documents over the stored files, listed in the order `files` and
\* giving the chunks described by all_metadata, with at most one environment
\* fault.
process_documents(files, all_metadata, idxF, metF, fault) ==
  IF fault = "glob_error"
  THEN RunResult([indexFile |-> idxF, metaFile |-> metF], TRUE, "raised", 0)
  ELSE IF files = <<>>
  THEN RunResult([indexFile |-> idxF, metaFile |-> metF], FALSE, "nofiles", 0)
  ELSE IF all_metadata = <<>>
  THEN RunResult([indexFile |-> idxF, metaFile |-> metF], FALSE, "nochunks", 0)
  ELSE EmbedAndSave(ingest_load_index(idxF, metF, fault = "load_fail"),
                    create_embeddings(all_metadata, fault = "embed_fail"),
                    all_metadata, idxF, metF, fault)

----------------------------------------------------------------------------
(* RAGProcessor                                                            *)

Queries == {"q1", "q2"}

\* Inner product of the query's embedding with a stored vector.  The embedding
\* model is a black box: "q1" tells vectors apart, "q2" scores them all alike.
Score(q, v) == IF q = "q1" THEN v.cid ELSE 1

\* rag_load_index as it would be if a missing file gave an empty index
\* instead of None.
rag_load_index_empty(idxF, metF, fails) ==
  IF idxF.st = "ok" /\ metF.st = "ok" /\ ~fails
  THEN [found |-> TRUE, index |-> idxF.data, metadata |-> metF.data]
  ELSE [found |-> idxF.st = "absent" \/ metF.st = "absent",
        index |-> <<>>, metadata |-> <<>>]

\* RAGProcessor.load_index: (None, []) when a file is missing or when reading
\* raises.
rag_load_index(idxF, metF, fails) ==
  IF idxF.st = "absent" \/ metF.st = "absent"
  THEN [found |-> FALSE, index |-> <<>>, metadata |-> <<>>]
  ELSE IF fails \/ idxF.st # "ok" \/ metF.st # "ok"
  THEN [found |-> FALSE, index |-> <<>>, metadata |-> <<>>]
  ELSE [found |-> TRUE, index |-> idxF.data, metadata |-> metF.data]

\* load_chunks as it would be if a missing chunks.pkl gave one placeholder
\* text instead of [].
load_chunks_placeholder(chF, fails) ==
  IF chF.st = "absent" THEN [array |-> FALSE, items |-> <<<<"a">>>>]
  ELSE IF fails \/ chF.st = "corrupt" THEN [array |-> FALSE, items |-> <<>>]
  ELSE [array |-> chF.st = "ndarray", items |-> chF.data]

\* load_chunks: [] when chunks.pkl is missing or unreadable, else whatever
\* was pickled; `array` marks a pickled numpy array, whose truth value
\* Python refuses to compute.
load_chunks(chF, fails) ==
  IF chF.st = "absent" THEN [array |-> FALSE, items |-> <<>>]
  ELSE IF fails \/ chF.st = "corrupt" THEN [array |-> FALSE, items |-> <<>>]
  ELSE [array |-> chF.st = "ndarray", items |-> chF.data]

\* SearchK as it would be if the search always asked for top_k neighbours.
SearchKFixed(ntotal) == top_k

\* The k passed to index.search (line 87).
SearchK(ntotal) == Min2(top_k, ntotal)

\* The sets of positions index.search may report as the k nearest: k of them
\* when the index holds that many, none scoring below one left out (which of
\* several equal scores is left out is up to the library).
TopSets(index, q, k) ==
  {S \in SUBSET (1..Len(index)) :
     /\ Cardinality(S) = Min2(k, Len(index))
     /\ \A i \in S : \A j \in (1..Len(index)) \ S :
          Score(q, index[i]) >= Score(q, index[j])}

\* The positions of S by decreasing score, as (score, 0-based position).
RECURSIVE Ranked(_, _, _)
Ranked(index, q, S) ==
  IF S = {} THEN <<>>
  ELSE LET best == CHOOSE i \in S : \A j \in S :
                     \/ Score(q, index[i]) > Score(q, index[j])
                     \/ Score(q, index[i]) = Score(q, index[j]) /\ i <= j
       IN <<[score |-> Score(q, index[best]), idx |-> best - 1]>>
          \o Ranked(index, q, S \ {best})

\* index.search(query, k) of a flat inner-product index: the k best by
\* decreasing score; rows the index cannot fill carry position -1 and the
\* lowest score.
Search(index, q, k, S) ==
  Ranked(index, q, S)
    \o [i \in 1..(k - Cardinality(S)) |-> [score |-> -1, idx |-> -1]]

\* list[i] with Python's negative positions.
PyAt(list, i) == IF i < 0 THEN list[Len(list) + i + 1] ELSE list[i + 1]

\* x put into the list `sorted` after every element scoring at least as high.
InsertDesc(sorted, x) ==
  LET before == {i \in 1..Len(sorted) : sorted[i].score >= x.score}
  IN IF before = {} THEN <<x>> \o sorted
     ELSE SubSeq(sorted, 1, SetMax(before)) \o <<x>>
            \o SubSeq(sorted, SetMax(before) + 1, Len(sorted))

\* list.sort(key=score, reverse=True): stable, highest score first.
RECURSIVE PySortDesc(_)
PySortDesc(list) ==
  IF list = <<>> THEN <<>>
  ELSE InsertDesc(PySortDesc(SubSeq(list, 1, Len(list) - 1)), list[Len(list)])

\* Lines 89-101: the hits whose position both lists can serve, joined with
\* chunk text and metadata and sorted; [] when reading a position raises.
Evidence(kept, metadata, chunks) ==
  IF \E i \in 1..Len(kept) :
       kept[i].idx < 0 /\ (-kept[i].idx > Len(chunks) \/ -kept[i].idx > Len(metadata))
  THEN <<>>
  ELSE PySortDesc([i \in 1..Len(kept) |->
                     [text |-> PyAt(chunks, kept[i].idx),
                      metadata |-> PyAt(metadata, kept[i].idx),
                      score |-> kept[i].score]])

JoinHits(hits, metadata, chunks) ==
  LET InRange(h) == h.idx < Len(chunks) /\ h.idx < Len(metadata)
  IN Evidence(SelectSeq(hits, InRange), metadata, chunks)

\* retrieve_relevant_chunks: [] when the query cannot be embedded or when
\* anything raises (a failing search, a search for zero neighbours, a
\* position the lists cannot serve).
retrieve_relevant_chunks(q, index, metadata, chunks, embedFails, searchFails, S) ==
  IF embedFails \/ searchFails \/ SearchK(Len(index)) = 0 THEN <<>>
  ELSE JoinHits(Search(index, q, SearchK(Len(index)), S), metadata, chunks)

\* generate_response: the mock answer without a client, the model's answer
\* with one, the apology when the call raises.
generate_response(q, context_chunks, client, fails) ==
  IF ~client
  THEN (IF context_chunks = <<>> THEN "mock_no_info" ELSE "mock_answer")
  ELSE IF fails THEN "msg_generation_error" ELSE "answer"

\* ProcessQueryExcept as it would be if the clause re-raised, the way the
\* except clause of process_documents does.
ProcessQueryReraise(embedCalled, genCalled) ==
  [kind |-> "raised", embedCalled |-> embedCalled,
   genCalled |-> genCalled, results |-> <<>>]

\* The except clause of process_query (lines 204-206).
ProcessQueryExcept(embedCalled, genCalled) ==
  [kind |-> "msg_processing_error", embedCalled |-> embedCalled,
   genCalled |-> genCalled, results |-> <<>>]

QueryFaults == [load : BOOLEAN, chunks : BOOLEAN, embed : BOOLEAN,
                search : BOOLEAN, gen : BOOLEAN]

\* Lines 195-202 of process_query: the message for no evidence, else the
\* generated answer.
QueryRetrieved(q, relevant, client, f) ==
  IF relevant = <<>>
  THEN [kind |-> "msg_no_relevant", embedCalled |-> TRUE,
        genCalled |-> FALSE, results |-> <<>>]
  ELSE [kind |-> generate_response(q, relevant, client, f.gen),
        embedCalled |-> TRUE, genCalled |-> TRUE, results |-> relevant]

\* Lines 184-193 of process_query, given what load_index and load_chunks
\* returned.
QueryLoaded(q, loaded, chunks, client, f, S) ==
  IF ~loaded.found
  THEN [kind |-> "msg_no_knowledge_base", embedCalled |-> FALSE,
        genCalled |-> FALSE, results |-> <<>>]
  ELSE IF chunks.array THEN ProcessQueryExcept(FALSE, FALSE)
  ELSE IF chunks.items = <<>>
  THEN [kind |-> "msg_no_chunks", embedCalled |-> FALSE,
        genCalled |-> FALSE, results |-> <<>>]
  ELSE QueryRetrieved(q,
                      retrieve_relevant_chunks(q, loaded.index, loaded.metadata,
                                               chunks.items, f.embed, f.search, S),
                      client, f)

\* process_query: what it returns (kind), whether it called the embedding
\* model and the generator, and the evidence it retrieved.
process_query(q, idxF, metF, chF, client, f, S) ==
  QueryLoaded(q, rag_load_index(idxF, metF, f.load), load_chunks(chF, f.chunks),
              client, f, S)

----------------------------------------------------------------------------
(* Values of the state that an operation has not touched                   *)

NoFile == [st |-> "absent", data |-> <<>>]

NoResponse == [op |-> "none", status |-> 0, filename |-> "", body |-> "none"]

NoRun == [outcome |-> "none", fault |-> "none", k |-> 0]

NoCorpus == [f \in FileNames |-> "absent"]

NoStreak == [n |-> 0, corpus |-> NoCorpus, k |-> 0]

NoQuery == [kind |-> "none", embedCalled |-> FALSE, genCalled |-> FALSE,
            results |-> <<>>]

NoDoc == [pc |-> "idle", name |-> "", text |-> <<>>, cleaned |-> <<>>,
          chunks |-> <<>>, ranges |-> <<>>, meta |-> <<>>]

\* chunk_text not called.
NoLoop == [pc |-> "idle", text |-> <<>>, size |-> 0, overlap |-> 0, start |-> 0,
           prev |-> 0, iters |-> 0, chunks |-> <<>>]

NoLoad == [found |-> FALSE, index |-> <<>>, metadata |-> <<>>]

\* A handler coroutine that no request has started.
NoTask == [op |-> "none", pc |-> "idle", name |-> "", content |-> "",
           files |-> <<>>, loaded |-> NoLoad, meta |-> <<>>, emb |-> <<>>,
           seenIndex |-> NoFile, seenMeta |-> NoFile, metaThen |-> NoFile,
           result |-> NoQuery]

NoTasks == [t \in 1..MaxTasks |-> NoTask]

----------------------------------------------------------------------------
(* Request handlers (app.py) over the sources and index directories.       *)
(* response, run and qres describe the request handled last: what it       *)
(* answered, how its ingestion run ended, what process_query returned.     *)

\* The file-type test of upload_documents (line 52).
SupportedUpload(name) == Suffix(name) \in {".pdf", ".doc", ".docx", ".txt"}

UploadItems == {[name |-> n, content |-> c] : n \in FileNames, c \in Contents}
                 \cup {[name |-> "c.xyz", content |-> "note"]}

\* The file lists of one upload request: up to MaxUpload files, no name twice.
UploadLists ==
  {l \in UNION {[1..m -> UploadItems] : m \in 1..MaxUpload} :
     \A i, j \in 1..Len(l) : i # j => l[i].name # l[j].name}

\* The loop of upload_documents (lines 50-60): files are stored one by one
\* until one has an unsupported name.
RECURSIVE SaveUploads(_, _)
SaveUploads(src, files) ==
  IF files = <<>> THEN [sources |-> src, rejected |-> FALSE]
  ELSE IF ~SupportedUpload(Head(files).name)
  THEN [sources |-> src, rejected |-> TRUE]
  ELSE SaveUploads([src EXCEPT ![Head(files).name] = Head(files).content],
                   Tail(files))

\* Bookkeeping for repeated ingestion: n counts the fault-free runs that
\* have saved since the index directory was empty, all over the same stored
\* files `corpus`, each yielding k chunks; n = -1 once anything else has
\* written to the directory.
NextStreak(old, src, idxF, metF, r, fault) ==
  LET clean == r.outcome = "saved" /\ fault = "none"
  IN IF clean /\ old.n = 0 /\ idxF.st = "absent" /\ metF.st = "absent"
     THEN [n |-> 1, corpus |-> src, k |-> r.k]
     ELSE IF clean /\ old.n >= 1 /\ old.corpus = src
     THEN [old EXCEPT !.n = old.n + 1]
     ELSE IF old.n = 0 /\ r.indexFile.st = "absent" /\ r.metaFile.st = "absent"
     THEN old
     ELSE [n |-> -1, corpus |-> NoCorpus, k |-> 0]

\* `await document_ingester.process_documents(SOURCES_DIR, INDEX_DIR)` inside
\* a handler whose success reply is `ok`; an exception becomes a 500.
Ingest(src, op, filename, ok) ==
  \E files \in GlobOrders(src) :
    \E all_metadata \in {AllMetadata(src, files)} :
    \E fault \in Faults :
    \E r \in {process_documents(files, all_metadata, indexFile, metaFile, fault)} :
       /\ indexFile' = r.indexFile
       /\ metaFile' = r.metaFile
       /\ run' = [outcome |-> r.outcome, fault |-> fault, k |-> r.k]
       /\ qres' = NoQuery
       /\ nRuns' = nRuns + 1
       /\ streak' = NextStreak(streak, src, indexFile, metaFile, r, fault)
       /\ response' = IF r.raised
                      THEN [op |-> op, status |-> 500, filename |-> filename,
                            body |-> "error"]
                      ELSE [op |-> op, status |-> 200, filename |-> filename,
                            body |-> ok]

\* POST /upload
upload_documents ==
  /\ nRuns < MaxRuns
  /\ \E files \in UploadLists :
       \E s \in {SaveUploads(sources, files)} :
          /\ sources' = s.sources
          /\ IF s.rejected
             THEN /\ response' = [op |-> "upload", status |-> 500,
                                  filename |-> "", body |-> "error"]
                  /\ run' = NoRun
                  /\ qres' = NoQuery
                  /\ UNCHANGED <<indexFile, metaFile, nRuns, streak>>
             ELSE Ingest(s.sources, "upload", "", "processed")
  /\ UNCHANGED <<chunksFile, doc, loop, tasks, running>>

\* DELETE /documents/{filename}
delete_document ==
  /\ nRuns < MaxRuns
  /\ \E filename \in UploadNames :
       IF filename \notin FileNames \/ sources[filename] = "absent"
       THEN /\ response' = [op |-> "delete", status |-> 500,
                            filename |-> filename, body |-> "error"]
            /\ run' = NoRun
            /\ qres' = NoQuery
            /\ UNCHANGED <<sources, indexFile, metaFile, nRuns, streak>>
       ELSE /\ sources' = [sources EXCEPT ![filename] = "absent"]
            /\ Ingest([sources EXCEPT ![filename] = "absent"], "delete",
                      filename, "deleted")
  /\ UNCHANGED <<chunksFile, doc, loop, tasks, running>>

\* The neighbour sets the search of process_query may report: those of the
\* loaded index when the query gets as far as the search, else none.
SetsLoaded(q, loaded, chunks, f) ==
  IF loaded.found /\ ~chunks.array /\ chunks.items # <<>>
     /\ ~f.embed /\ ~f.search
  THEN TopSets(loaded.index, q, SearchK(Len(loaded.index)))
  ELSE {{}}

QuerySets(q, idxF, metF, chF, f) ==
  SetsLoaded(q, rag_load_index(idxF, metF, f.load), load_chunks(chF, f.chunks), f)

\* The environments of one chat request: at most one step of it fails.
ChatFaults ==
  {f \in QueryFaults :
     Cardinality({x \in {"load", "chunks", "embed", "search", "gen"} : f[x]}) <= 1}

\* POST /chat
chat_with_ai ==
  /\ \E message \in Queries \cup {""} :
       IF message = ""
       THEN /\ response' = [op |-> "chat", status |-> 500, filename |-> "",
                            body |-> "error"]
            /\ qres' = NoQuery
       ELSE \E client \in BOOLEAN, f \in ChatFaults :
              \E S \in QuerySets(message, indexFile, metaFile, chunksFile, f) :
                \E r \in {process_query(message, indexFile, metaFile,
                                         chunksFile, client, f, S)} :
                   /\ qres' = r
                   /\ response' = [op |-> "chat",
                                   status |-> IF r.kind = "raised" THEN 500
                                              ELSE 200,
                                   filename |-> "", body |-> r.kind]
  /\ run' = NoRun
  /\ UNCHANGED <<sources, indexFile, metaFile, chunksFile, nRuns, streak, doc, loop,
                 tasks, running>>

Init ==
  /\ sources = NoCorpus
  /\ indexFile = NoFile
  /\ metaFile = NoFile
  /\ chunksFile = NoFile
  /\ response = NoResponse
  /\ run = NoRun
  /\ nRuns = 0
  /\ streak = NoStreak
  /\ qres = NoQuery
  /\ doc = NoDoc
  /\ tasks = NoTasks
  /\ running = 0
  /\ loop = NoLoop

Next == upload_documents \/ delete_document \/ chat_with_ai

Spec == Init /\ [][Next]_vars

----------------------------------------------------------------------------
(* One document through extraction, cleaning and chunking                  *)

HeadLens == {0, 1, 850, 899, 900, 950, 999, 1000}

TailLens == {0, 1, 100, 700, 749, 850, 1000}

Mids == {<<>>, <<".">>, <<" ">>, <<"#">>, <<" ", " ">>, <<".", " ">>}

\* The extracted texts tried: a run of word characters, a short middle, a run
\* of word characters; every extractor returns its text stripped.
DocTexts ==
  {t \in {Rep("a", p) \o mid \o Rep("a", q) :
            p \in HeadLens, mid \in Mids, q \in TailLens} : Strip(t) = t}

DocInit ==
  /\ doc \in {[NoDoc EXCEPT !.pc = "extracted", !.name = "a.txt", !.text = t] :
                t \in DocTexts}
  /\ sources = NoCorpus
  /\ indexFile = NoFile
  /\ metaFile = NoFile
  /\ chunksFile = NoFile
  /\ response = NoResponse
  /\ run = NoRun
  /\ nRuns = 0
  /\ streak = NoStreak
  /\ qres = NoQuery
  /\ tasks = NoTasks
  /\ running = 0
  /\ loop = NoLoop

\* The body of the per-file loop of process_documents after extract_text.
ProcessFile ==
  /\ doc.pc = "extracted"
  /\ doc' = FileChunks(doc.name, doc.text)
  /\ UNCHANGED <<sources, indexFile, metaFile, chunksFile, response, run,
                 nRuns, streak, qres, tasks, running, loop>>

NextDoc == ProcessFile

SpecDoc == DocInit /\ [][NextDoc]_vars

----------------------------------------------------------------------------
(* Queries against an arbitrary index directory                            *)

PoolVecs == {[src |-> "a.txt", cid |-> c, len |-> 1] : c \in 0..1}

MetaOfLen(m) ==
  [i \in 1..m |-> [source |-> "a.txt", chunk_id |-> i - 1,
                   total_chunks |-> m, text_length |-> 1]]

ChunksOfLen(m) == [i \in 1..m |-> Rep("a", i)]

QIndexFiles ==
  {[st |-> "absent", data |-> <<>>], [st |-> "corrupt", data |-> <<>>]}
    \cup {[st |-> "ok", data |-> d] :
            d \in UNION {[1..m -> PoolVecs] : m \in 0..MaxVecs}}

QMetaFiles ==
  {[st |-> "absent", data |-> <<>>], [st |-> "corrupt", data |-> <<>>]}
    \cup {[st |-> "ok", data |-> MetaOfLen(m)] : m \in 0..MaxVecs}

QChunkFiles ==
  {[st |-> "absent", data |-> <<>>], [st |-> "corrupt", data |-> <<>>],
   [st |-> "ndarray", data |-> ChunksOfLen(2)]}
    \cup {[st |-> "ok", data |-> ChunksOfLen(m)] : m \in 0..MaxVecs}

QueryInit ==
  /\ indexFile \in QIndexFiles
  /\ metaFile \in QMetaFiles
  /\ chunksFile \in QChunkFiles
  /\ sources = NoCorpus
  /\ response = NoResponse
  /\ run = NoRun
  /\ nRuns = 0
  /\ streak = NoStreak
  /\ qres = NoQuery
  /\ doc = NoDoc
  /\ tasks = NoTasks
  /\ running = 0
  /\ loop = NoLoop

\* rag_processor.process_query(query, INDEX_DIR)
ProcessQueryCall ==
  /\ qres.kind = "none"
  /\ \E q \in Queries, client \in BOOLEAN, f \in QueryFaults :
       \E S \in QuerySets(q, indexFile, metaFile, chunksFile, f) :
         qres' = process_query(q, indexFile, metaFile, chunksFile, client, f, S)
  /\ UNCHANGED <<sources, indexFile, metaFile, chunksFile, response, run,
                 nRuns, streak, doc, loop, tasks, running>>

\* retrieve_relevant_chunks(query, index, metadata, chunks) on lists of any
\* lengths.
RetrieveCall ==
  /\ qres.kind = "none"
  /\ indexFile.st = "ok" /\ metaFile.st = "ok" /\ chunksFile.st = "ok"
  /\ \E q \in Queries, embedFails \in BOOLEAN, searchFails \in BOOLEAN :
       \E S \in TopSets(indexFile.data, q, SearchK(Len(indexFile.data))) :
         qres' = [kind |-> "retrieved", embedCalled |-> TRUE,
                  genCalled |-> FALSE,
                  results |-> retrieve_relevant_chunks(
                                q, indexFile.data, metaFile.data,
                                chunksFile.data, embedFails, searchFails, S)]
  /\ UNCHANGED <<sources, indexFile, metaFile, chunksFile, response, run,
                 nRuns, streak, doc, loop, tasks, running>>

NextQuery == ProcessQueryCall \/ RetrieveCall

SpecQuery == QueryInit /\ [][NextQuery]_vars

----------------------------------------------------------------------------
(* Requests in flight together.  uvicorn.run(app) serves every request on  *)
(* one event loop: the handlers are coroutines, a coroutine keeps the loop *)
(* until an await suspends it or it returns.  tasks[t] is the position of  *)
(* handler coroutine t and what it holds in local variables; running is    *)
(* the coroutine that has the loop, 0 when the loop is free.               *)

Tasks == 1..MaxTasks

\* The requests that arrive: two uploads, a deletion, a chat.
AsyncRequests ==
  {[op |-> "upload", name |-> "a.txt", content |-> "note"],
   [op |-> "upload", name |-> "b.pdf", content |-> "memo"],
   [op |-> "delete", name |-> "a.txt", content |-> ""],
   [op |-> "chat", name |-> "q1", content |-> ""]}

\* Suspends as it would be if every await and every blocking call gave the
\* loop to other coroutines.
SuspendsAlways(point) == TRUE

\* Whether the coroutine gives up the loop at `point`.  The awaits on
\* process_documents, process_query and generate_response enter coroutines
\* that run on; file and embedding calls are blocking calls; only the await
\* on the chat completion request waits for I/O.
Suspends(point) == point = "generate"

\* The coroutine that has the loop after t passed `point`.
LoopAfter(t, point) == IF Suspends(point) THEN 0 ELSE t

\* The loop runs t when it is free or t has it.
Runs(t) == running \in {0, t}

Reply(op, status, name, body) ==
  [op |-> op, status |-> status, filename |-> name, body |-> body]

\* The request layer starts a handler coroutine for a request.
Arrive(t) ==
  /\ tasks[t].pc = "idle"
  /\ \E r \in AsyncRequests :
       tasks' = [tasks EXCEPT ![t] = [NoTask EXCEPT !.op = r.op, !.pc = "ready",
                                                    !.name = r.name,
                                                    !.content = r.content]]
  /\ UNCHANGED <<sources, indexFile, metaFile, chunksFile, response, run,
                 nRuns, streak, qres, doc, loop, running>>

\* upload_documents lines 50-60, delete_document lines 126-130: the write to
\* the sources directory.
StoreStep(t) ==
  /\ Runs(t)
  /\ tasks[t].pc = "ready"
  /\ tasks[t].op \in {"upload", "delete"}
  /\ IF tasks[t].op = "delete" /\ sources[tasks[t].name] = "absent"
     THEN /\ tasks' = [tasks EXCEPT ![t].pc = "done"]
          /\ running' = 0
          /\ response' = Reply("delete", 500, tasks[t].name, "error")
          /\ UNCHANGED sources
     ELSE /\ sources' = [sources EXCEPT ![tasks[t].name] =
                           IF tasks[t].op = "delete" THEN "absent"
                           ELSE tasks[t].content]
          /\ tasks' = [tasks EXCEPT ![t].pc = "stored"]
          /\ running' = LoopAfter(t, "store")
          /\ UNCHANGED response
  /\ UNCHANGED <<indexFile, metaFile, chunksFile, run, nRuns, streak, qres, doc, loop>>

\* process_documents lines 178-191: list the files, load the index.
LoadStep(t) ==
  /\ Runs(t)
  /\ tasks[t].pc = "stored"
  /\ \E files \in GlobOrders(sources) :
       IF files = <<>>
       THEN /\ tasks' = [tasks EXCEPT ![t].pc = "done"]
            /\ running' = 0
            /\ response' = Reply(tasks[t].op, 200, tasks[t].name, "nofiles")
       ELSE /\ tasks' = [tasks EXCEPT
                           ![t].pc = "loaded",
                           ![t].files = files,
                           ![t].loaded = ingest_load_index(indexFile, metaFile, FALSE)]
            /\ running' = LoopAfter(t, "load")
            /\ UNCHANGED response
  /\ UNCHANGED <<sources, indexFile, metaFile, chunksFile, run, nRuns, streak,
                 qres, doc, loop>>

\* process_documents lines 193-236: extract, clean, chunk and embed.
EmbedStep(t) ==
  /\ Runs(t)
  /\ tasks[t].pc = "loaded"
  /\ \E all_metadata \in {AllMetadata(sources, tasks[t].files)} :
       IF all_metadata = <<>>
       THEN /\ tasks' = [tasks EXCEPT ![t].pc = "done"]
            /\ running' = 0
            /\ response' = Reply(tasks[t].op, 200, tasks[t].name, "nochunks")
       ELSE /\ tasks' = [tasks EXCEPT
                           ![t].pc = "embedded",
                           ![t].meta = all_metadata,
                           ![t].emb = create_embeddings(all_metadata, FALSE)]
            /\ running' = LoopAfter(t, "embed")
            /\ UNCHANGED response
  /\ UNCHANGED <<sources, indexFile, metaFile, chunksFile, run, nRuns, streak,
                 qres, doc, loop>>

\* process_documents lines 238-247 and save_index line 140: merge, write the
\* index file.
SaveIndexStep(t) ==
  /\ Runs(t)
  /\ tasks[t].pc = "embedded"
  /\ indexFile' = [st |-> "ok",
                   data |-> MergeIndex(tasks[t].loaded, tasks[t].emb)]
  /\ tasks' = [tasks EXCEPT ![t].pc = "index_saved"]
  /\ running' = LoopAfter(t, "save_index")
  /\ UNCHANGED <<sources, metaFile, chunksFile, response, run, nRuns, streak,
                 qres, doc, loop>>

\* save_index lines 143-144: write the metadata file; the handler answers.
SaveMetaStep(t) ==
  /\ Runs(t)
  /\ tasks[t].pc = "index_saved"
  /\ metaFile' = [st |-> "ok",
                  data |-> MergeMeta(tasks[t].loaded, tasks[t].meta)]
  /\ tasks' = [tasks EXCEPT ![t].pc = "done"]
  /\ running' = 0
  /\ response' = Reply(tasks[t].op, 200, tasks[t].name, "saved")
  /\ UNCHANGED <<sources, indexFile, chunksFile, run, nRuns, streak, qres, doc, loop>>

\* RAGProcessor.load_index lines 43-51: read the index file.  metaThen
\* remembers the metadata file of that moment.
ChatReadIndex(t) ==
  /\ Runs(t)
  /\ tasks[t].pc = "ready"
  /\ tasks[t].op = "chat"
  /\ tasks' = [tasks EXCEPT ![t].pc = "index_read",
                            ![t].seenIndex = indexFile,
                            ![t].metaThen = metaFile]
  /\ running' = LoopAfter(t, "read_index")
  /\ UNCHANGED <<sources, indexFile, metaFile, chunksFile, response, run,
                 nRuns, streak, qres, doc, loop>>

NoQueryFaults == [load |-> FALSE, chunks |-> FALSE, embed |-> FALSE,
                  search |-> FALSE, gen |-> FALSE]

\* load_index lines 54-55 and process_query lines 184-199: read the metadata
\* file, then go on to the chat completion request or to an earlier return.
ChatReadMeta(t) ==
  /\ Runs(t)
  /\ tasks[t].pc = "index_read"
  /\ \E S \in QuerySets(tasks[t].name, tasks[t].seenIndex, metaFile, chunksFile,
                         NoQueryFaults) :
     \E r \in {process_query(tasks[t].name, tasks[t].seenIndex, metaFile,
                             chunksFile, TRUE, NoQueryFaults, S)} :
       IF r.genCalled
       THEN /\ tasks' = [tasks EXCEPT ![t].pc = "generating",
                                      ![t].seenMeta = metaFile,
                                      ![t].result = r]
            /\ running' = LoopAfter(t, "generate")
            /\ UNCHANGED <<qres, response>>
       ELSE /\ tasks' = [tasks EXCEPT ![t].pc = "done",
                                      ![t].seenMeta = metaFile,
                                      ![t].result = r]
            /\ running' = 0
            /\ qres' = r
            /\ response' = Reply("chat", 200, "", r.kind)
  /\ UNCHANGED <<sources, indexFile, metaFile, chunksFile, run, nRuns, streak,
                 doc, loop>>

\* generate_response lines 147-158: the completion arrived; the handler
\* answers.
ChatAnswer(t) ==
  /\ Runs(t)
  /\ tasks[t].pc = "generating"
  /\ tasks' = [tasks EXCEPT ![t].pc = "done"]
  /\ running' = 0
  /\ qres' = tasks[t].result
  /\ response' = Reply("chat", 200, "", tasks[t].result.kind)
  /\ UNCHANGED <<sources, indexFile, metaFile, chunksFile, run, nRuns, streak,
                 doc, loop>>

AsyncInit ==
  /\ sources = NoCorpus
  /\ indexFile = NoFile
  /\ metaFile = NoFile
  /\ chunksFile \in {NoFile, [st |-> "ok", data |-> ChunksOfLen(2)]}
  /\ response = NoResponse
  /\ run = NoRun
  /\ nRuns = 0
  /\ streak = NoStreak
  /\ qres = NoQuery
  /\ doc = NoDoc
  /\ tasks = NoTasks
  /\ running = 0
  /\ loop = NoLoop

NextAsync ==
  \E t \in Tasks :
    \/ Arrive(t)
    \/ StoreStep(t)
    \/ LoadStep(t)
    \/ EmbedStep(t)
    \/ SaveIndexStep(t)
    \/ SaveMetaStep(t)
    \/ ChatReadIndex(t)
    \/ ChatReadMeta(t)
    \/ ChatAnswer(t)

SpecAsync == AsyncInit /\ [][NextAsync]_vars

----------------------------------------------------------------------------
(* chunk_text step by step, for the sizes and overlaps an ingester can be  *)
(* given (self.chunk_size, self.chunk_overlap).  loop holds the locals of  *)
(* one call: start, the start of the iteration before (prev), the number   *)
(* of iterations so far and the chunks appended.                           *)

\* All texts of up to n characters that are words, spaces and terminators.
TextsUpTo(n) == UNION {[1..m -> {"a", " ", "."}] : m \in 0..n}

\* The calls: every short text with every small size and overlap, the
\* documents of SpecDoc with the sizes the ingester is built with, and one
\* text with a terminator near the end of a window of 100 with overlap 99.
ChunkCalls ==
  {[text |-> t, size |-> s, overlap |-> o] :
     t \in TextsUpTo(MaxText), s \in 1..MaxSize, o \in 0..(MaxSize - 1)}
  \cup {[text |-> t, size |-> chunk_size, overlap |-> chunk_overlap] :
          t \in DocTexts}
  \cup {[text |-> Rep("a", 98) \o <<".">> \o Rep("a", 10),
          size |-> 100, overlap |-> 99]}

ChunkInit ==
  /\ loop \in {[NoLoop EXCEPT !.pc = "called", !.text = c.text, !.size = c.size,
                               !.overlap = c.overlap] :
                 c \in {d \in ChunkCalls : d.overlap < d.size}}
  /\ sources = NoCorpus
  /\ indexFile = NoFile
  /\ metaFile = NoFile
  /\ chunksFile = NoFile
  /\ response = NoResponse
  /\ run = NoRun
  /\ nRuns = 0
  /\ streak = NoStreak
  /\ qres = NoQuery
  /\ doc = NoDoc
  /\ tasks = NoTasks
  /\ running = 0

\* chunk_text lines 100-104: a text no longer than the size is returned
\* whole, else the loop starts at 0.
ChunkEnter ==
  /\ loop.pc = "called"
  /\ loop' = IF Len(loop.text) <= loop.size
             THEN [loop EXCEPT !.pc = "returned", !.chunks = <<loop.text>>]
             ELSE [loop EXCEPT !.pc = "loop", !.start = 0]
  /\ UNCHANGED <<sources, indexFile, metaFile, chunksFile, response, run,
                 nRuns, streak, qres, doc, tasks, running>>

\* One iteration of the while loop (lines 106-123), MaxIters of them at most.
ChunkIterate ==
  /\ loop.pc = "loop"
  /\ loop.start < Len(loop.text)
  /\ loop.iters < MaxIters
  /\ \E st \in {ChunkStep(loop.text, loop.start, loop.size, loop.overlap)} :
       loop' = [loop EXCEPT
                  !.chunks = IF st.chunk # <<>> THEN @ \o <<st.chunk>> ELSE @,
                  !.prev = loop.start,
                  !.start = st.next,
                  !.iters = @ + 1,
                  !.pc = IF st.next >= Len(loop.text) THEN "returned" ELSE "loop"]
  /\ UNCHANGED <<sources, indexFile, metaFile, chunksFile, response, run,
                 nRuns, streak, qres, doc, tasks, running>>

NextChunk == ChunkEnter \/ ChunkIterate

SpecChunk == ChunkInit /\ [][NextChunk]_vars

----------------------------------------------------------------------------
(* Properties                                                              *)

\* C1: after an ingestion run that reached save_index and saved without a
\* fault, the saved index, the saved metadata list and the chunk-text list
\* that load_chunks gives the Retriever have the same length.
C1_AlignedWithChunkTexts ==
  (run.outcome = "saved" /\ run.fault = "none") =>
    /\ Len(indexFile.data) = Len(metaFile.data)
    /\ Len(metaFile.data) = Len(load_chunks(chunksFile, FALSE).items)

\* C2: whenever both saved files are readable, the saved index holds as many
\* vectors as the saved metadata list holds entries, and entry i describes
\* the chunk whose vector is at position i.
C2_IndexMetaAligned ==
  (indexFile.st = "ok" /\ metaFile.st = "ok") =>
    /\ Len(indexFile.data) = Len(metaFile.data)
    /\ \A i \in 1..Len(indexFile.data) :
         i <= Len(metaFile.data) => indexFile.data[i] = Embed(metaFile.data[i])

StringReplies ==
  {"msg_no_knowledge_base", "msg_no_chunks", "msg_no_relevant",
   "mock_no_info", "mock_answer", "answer", "msg_generation_error",
   "msg_processing_error"}

\* C3: whatever the index directory holds and whichever step fails,
\* process_query returns a string: an answer or one of its messages.
C3_QueryReturnsString ==
  qres.kind \notin {"none", "retrieved"} => qres.kind \in StringReplies

\* C3 witnesses: the except clause of process_query has turned an exception
\* into its message; generate_response has turned a failed call into its
\* apology.
C3_Witness ==
  \/ qres.kind = "msg_processing_error" /\ chunksFile.st = "ndarray"
  \/ qres.kind = "msg_generation_error" /\ qres.genCalled

\* C4: with the index file or the metadata file missing, process_query
\* returns the 'No knowledge base found' message and calls neither the
\* embedding model nor the generator.
C4_NoKnowledgeBase ==
  (qres.kind \notin {"none", "retrieved"}
     /\ (indexFile.st = "absent" \/ metaFile.st = "absent")) =>
    /\ qres.kind = "msg_no_knowledge_base"
    /\ ~qres.embedCalled
    /\ ~qres.genCalled

\* C4 witness: the query ran with the metadata file missing although an
\* index and chunk texts were there.
C4_Witness ==
  /\ qres.kind = "msg_no_knowledge_base"
  /\ metaFile.st = "absent"
  /\ indexFile.st = "ok" /\ Len(indexFile.data) > 0
  /\ chunksFile.st = "ok" /\ Len(chunksFile.data) > 0

\* C5: retrieval returns at most min(top_k, vectors in the index) results,
\* ordered by non-increasing score.
C5_TopKBound ==
  qres.kind # "none" =>
    /\ Len(qres.results) <= Min2(top_k, Len(indexFile.data))
    /\ \A i, j \in 1..Len(qres.results) :
         i < j => qres.results[i].score >= qres.results[j].score

\* C5 witness: a retrieval over more than top_k vectors returned top_k
\* results of differing scores.
C5_Witness ==
  /\ qres.kind = "retrieved"
  /\ Len(indexFile.data) > top_k
  /\ Len(qres.results) = top_k
  /\ qres.results[1].score > qres.results[top_k].score

\* C6: once delete_document has removed a file and re-run ingestion, the
\* saved index and metadata hold no entry whose source is that file (stated
\* for runs without a fault over an index directory whose two files are
\* readable and of equal length).
C6_DeletedSourceGone ==
  (/\ response.op = "delete" /\ response.status = 200
   /\ run.fault = "none"
   /\ indexFile.st = "ok" /\ metaFile.st = "ok"
   /\ Len(indexFile.data) = Len(metaFile.data)) =>
    /\ \A i \in 1..Len(metaFile.data) :
         metaFile.data[i].source # response.filename
    /\ \A i \in 1..Len(indexFile.data) :
         indexFile.data[i].src # response.filename

\* C7: a run whose embedding failed ends in an error answer of the handler,
\* and a run that ended at any other return point is answered as a success.
C7_EmbedFailureSignalled ==
  /\ run.outcome = "embedfail" => response.status = 500
  /\ run.outcome \in {"nofiles", "nochunks", "saved"} => response.status = 200

\* C8: every chunk recorded for a document with non-empty extracted text is
\* non-empty after trimming and no longer than chunk_size.
C8_ChunksNonEmptyBounded ==
  doc.pc = "done" =>
    \A i \in 1..Len(doc.chunks) :
      /\ Strip(doc.chunks[i]) # <<>>
      /\ Len(doc.chunks[i]) <= chunk_size

\* C9: for a text longer than chunk_size, two consecutive chunks share
\* exactly chunk_overlap characters of the text: the later chunk starts
\* chunk_overlap characters before the earlier one's last character ends,
\* and both are at least that long.
C9_ExactOverlap ==
  (doc.pc = "done" /\ Len(doc.cleaned) > chunk_size) =>
    \A i \in 1..(Len(doc.ranges) - 1) :
      LET aStart == doc.ranges[i].start
          aEnd == Min2(doc.ranges[i].end, Len(doc.cleaned))
          bStart == doc.ranges[i + 1].start
          bEnd == Min2(doc.ranges[i + 1].end, Len(doc.cleaned))
      IN /\ bStart = aEnd - chunk_overlap
         /\ aEnd - aStart >= chunk_overlap
         /\ bEnd - bStart >= chunk_overlap

\* C10: n fault-free runs from an empty index directory over the same
\* stored files, each yielding k chunks, leave n*k vectors and n*k metadata
\* entries; every such run keeps what was saved as a prefix and appends k
\* entries.
C10_RepeatedRunsAppend ==
  [][/\ streak'.n >= 1 =>
          /\ indexFile'.st = "ok" /\ metaFile'.st = "ok"
          /\ Len(indexFile'.data) = streak'.n * streak'.k
          /\ Len(metaFile'.data) = streak'.n * streak'.k
     /\ (streak.n >= 1 /\ streak'.n = streak.n + 1) =>
          /\ SubSeq(indexFile'.data, 1, Len(indexFile.data)) = indexFile.data
          /\ SubSeq(metaFile'.data, 1, Len(metaFile.data)) = metaFile.data
          /\ Len(indexFile'.data) = Len(indexFile.data) + streak.k
          /\ Len(metaFile'.data) = Len(metaFile.data) + streak.k]_vars

\* C10 witness: MaxRuns runs over the same files have each appended k > 0
\* entries.
C10_Witness ==
  /\ streak.n = MaxRuns
  /\ streak.k > 0
  /\ Len(metaFile.data) = MaxRuns * streak.k
  /\ Len(indexFile.data) = MaxRuns * streak.k

\* C11: no ingestion run writes chunks.pkl, so after any sequence of
\* uploads, deletions and chats from an empty index directory the file is
\* absent and process_query has returned only the "No knowledge base found"
\* or the "No text chunks found" message, without calling the embedding
\* model, the search or the generator.
C11_QueriesStopBeforeRetrieval ==
  /\ chunksFile.st = "absent"
  /\ qres.kind \in {"none", "msg_no_knowledge_base", "msg_no_chunks"}
  /\ ~qres.embedCalled
  /\ ~qres.genCalled
  /\ qres.results = <<>>

\* C11 witness: a chat after a run that saved vectors and metadata got the
\* "No text chunks found" message.
C11_Witness ==
  /\ qres.kind = "msg_no_chunks"
  /\ indexFile.st = "ok" /\ metaFile.st = "ok"
  /\ Len(indexFile.data) > 0
  /\ Len(metaFile.data) = Len(indexFile.data)
  /\ response.op = "chat" /\ response.status = 200

\* Vector i encodes the chunk that metadata entry i describes.
PairAligned(index, metadata) ==
  /\ Len(index) = Len(metadata)
  /\ \A i \in 1..Len(index) :
       /\ index[i].src = metadata[i].source
       /\ index[i].cid = metadata[i].chunk_id

\* The positions of a handler between its first step and its return, the
\* wait for the chat completion excepted.
Busy == {"stored", "loaded", "embedded", "index_saved", "index_read"}

\* C12 as stated: nothing excludes a second request while an ingestion run
\* is between its load and its save, so a request started concurrently can
\* take its next step there.
C12_RunsInterleave ==
  \A t, u \in Tasks :
    (/\ t # u
     /\ tasks[t].pc \in {"loaded", "embedded", "index_saved"}
     /\ tasks[u].pc = "ready")
    => ENABLED (StoreStep(u) \/ ChatReadIndex(u))

\* C12, amended: the code takes no lock, but on the one event loop a handler
\* gives way only at the chat completion request.  So at most one handler is
\* between its first step and its return; what an ingestion run loaded is
\* still what is on disk until it saves, and its index write extends it; a
\* query reads the index file and the metadata file of one moment, and the
\* two are aligned.
C12_RunsSerialized ==
  /\ Cardinality({t \in Tasks : tasks[t].pc \in Busy}) <= 1
  /\ \A t \in Tasks :
       /\ tasks[t].pc \in {"loaded", "embedded"} =>
            tasks[t].loaded = ingest_load_index(indexFile, metaFile, FALSE)
       /\ tasks[t].pc = "index_saved" =>
            /\ indexFile.data = MergeIndex(tasks[t].loaded, tasks[t].emb)
            /\ metaFile.data = tasks[t].loaded.metadata
       /\ tasks[t].pc = "index_read" => metaFile = tasks[t].metaThen
       /\ (tasks[t].op = "chat" /\ tasks[t].pc \in {"generating", "done"}) =>
            /\ tasks[t].seenMeta = tasks[t].metaThen
            /\ (tasks[t].seenIndex.st = "ok" /\ tasks[t].seenMeta.st = "ok") =>
                 PairAligned(tasks[t].seenIndex.data, tasks[t].seenMeta.data)

\* C12 witness: an ingestion run has written the index file and not yet the
\* metadata file, over an index an earlier run saved, while another upload
\* or deletion has been started and waits for the loop.
C12_Witness ==
  \E t, u \in Tasks :
    /\ t # u
    /\ tasks[t].pc = "index_saved"
    /\ tasks[u].pc = "ready"
    /\ tasks[u].op \in {"upload", "delete"}
    /\ running = t
    /\ Len(indexFile.data) > Len(metaFile.data)

\* C13: for every text and every size and overlap with 0 <= overlap < size,
\* each iteration of the sliding loop of chunk_text leaves the window start
\* greater than it found it (so the loop ends after at most len(text)
\* iterations).
C13_StartIncreases ==
  loop.iters > 0 =>
    /\ loop.start > loop.prev
    /\ loop.iters <= Len(loop.text)

====
